---- MODULE Spec2Model ----
(***************************************************************************)
(* Noise XK session (src/src/noise.rs) and the readiness-driven transport  *)
(* wrapping it (src/src/wire.rs), as a state machine.                       *)
(*                                                                         *)
(* One session lives in the model.  It is created by NoiseXk::accept or    *)
(* NoiseXk::connect_blocking and is either held bare by its caller (who    *)
(* may read, write, flush, split and rejoin it) or owned by a NetTransport *)
(* that a reactor drives with readiness events.  The raw connection, the   *)
(* reactor and the caller are the environment: what a raw read, write or   *)
(* flush returns and which event arrives are chosen with \E.               *)
(***************************************************************************)
EXTENDS Integers, Sequences, FiniteSets, TLC

VARIABLES
    S,                 \* the NetSession implementation the transport is built over
    debug_assertions,  \* whether the build compiles debug_assert! in
    pc,                \* who owns the session: "session", "split", "transport", "panicked", "dropped"
    session,           \* NoiseXk { remote_addr, connection, transcoder, established }
    halves,            \* <<>> or <<[reader |-> NoiseXkReader, writer |-> NoiseXkWriter]>>
    state,             \* NetTransport.state
    inbound,           \* NetTransport.inbound
    events,            \* the types of the SessionEvents handle_io has returned so far, in order
    call,              \* the last call made and what it returned
    xk,                \* <<>> or <<an XkAddr a caller holds by itself, with the upgrades made on it>>
    listener,          \* <<>> or <<a NetAccept: the connections pending on its socket, its last call>>
    net                \* <<>> or <<two transports joined by a connection, and the bytes in flight>>

vars == <<S, debug_assertions, xk, listener, net, pc, session, halves, state, inbound, events, call>>

----------------------------------------------------------------------------
(* Bounds of the model *)

\* handle_io calls followed per behaviour (length of the event history is at most this)
MaxEvents == 3
\* raw reads that return data (or are interrupted) inside one read_to_end
MaxChunks == 1
\* bytes one raw read returns at most
MaxRead == 2
\* upgrade calls followed on one address
MaxUpgrades == 3
\* connections pending on the listening socket at once
MaxBacklog == 2
\* ListenerEvents followed per behaviour
MaxListenerEvents == 2
\* SessionEvents followed per transport in a two-peer run
MaxPeerEvents == 3
\* bytes written by one peer and not yet read by the other
MaxInFlight == 1

----------------------------------------------------------------------------
(* Values *)

Handshake == "Handshake"
Active == "Active"
Terminated == "Terminated"
TransportState == {Handshake, Active, Terminated}

\* raw network addresses and the identity keys a caller may dial or a handshake may yield
Addrs == {"a1"}
PeerIds == {"Kr", "Ki"}
\* E::Pk::generator(), the fixed value NoiseXk::read promotes the address with
Generator == "G"
NoId == "none"

\* io::Result<usize> / io::Result<()>
Ok(n) == [n |-> n, ok |-> TRUE, err |-> "none"]
Err(kind) == [n |-> 0, ok |-> FALSE, err |-> kind]

\* Option<T>
None == <<>>
Some(x) == <<x>>

PeerAddr(id, a) == [id |-> id, addr |-> a]
Partial(a) == [id |-> NoId, addr |-> a, variant |-> "Partial"]
Full(pa) == [id |-> pa.id, addr |-> pa.addr, variant |-> "Full"]

SessionEvent_Established(id) == [err |-> "none", id |-> id, type |-> "Established", len |-> 0]
SessionEvent_Data(n) == [err |-> "none", id |-> NoId, type |-> "Data", len |-> n]
SessionEvent_Terminated(kind) == [err |-> kind, id |-> NoId, type |-> "Terminated", len |-> 0]

----------------------------------------------------------------------------
(* XkAddr *)

\* an upgrade that overwrites whatever is there: what C16 rules out
upgrade_overwrite(self, id) ==
    [addr |-> Full(PeerAddr(id, self.addr)), ret |-> TRUE]

\* XkAddr::upgrade: Partial becomes Full and true is returned; Full is left alone
XkAddr_upgrade(self, id) ==
    IF self.variant = "Partial"
    THEN [addr |-> Full(PeerAddr(id, self.addr)), ret |-> TRUE]
    ELSE [addr |-> self, ret |-> FALSE]

as_addr(self) == self.addr

\* XkAddr::expect_peer_addr panics on Partial: None stands for the panic
expect_peer_addr(self) ==
    IF self.variant = "Partial" THEN None ELSE Some(PeerAddr(self.id, self.addr))

----------------------------------------------------------------------------
(* The raw connection (NetConnection) and the transcoder, as NoiseXk uses them *)

WouldBlock == "WouldBlock"
Interrupted == "Interrupted"
ConnectionReset == "ConnectionReset"
BrokenPipe == "BrokenPipe"
NotConnected == "NotConnected"

\* what one raw connection.read may return: once the peer's shutdown has been
\* seen (eof) every later read returns Ok(0)
RawReads(conn) ==
    IF conn.eof THEN {Ok(0)}
    ELSE {Ok(n) : n \in 0..MaxRead} \cup {Err(WouldBlock), Err(Interrupted), Err(ConnectionReset)}

\* the raw reads one read_to_end may see: some that return data or are
\* interrupted, then one that ends the loop
Chunks(conn) ==
    IF conn.eof THEN {<<>>}
    ELSE UNION {[1..k -> {Ok(n) : n \in 1..MaxRead} \cup {Err(Interrupted)}] : k \in 0..MaxChunks}
Ends(conn) ==
    IF conn.eof THEN {Ok(0)} ELSE {Ok(0), Err(WouldBlock), Err(ConnectionReset)}

\* what connection.write and connection.flush may return
RawWrites == {Ok(n) : n \in 0..MaxRead} \cup {Err(WouldBlock), Err(BrokenPipe)}
RawFlushes == {Ok(0), Err(WouldBlock), Err(BrokenPipe)}

\* the connection after a raw read returned raw
Connection_read(conn, raw) == [conn EXCEPT !.eof = conn.eof \/ (raw.ok /\ raw.n = 0)]

\* NetConnection::split_io and from_split_io: the halves of one connection rejoin to it
Connection_split_io(conn) == [reader |-> [conn |-> conn], writer |-> [conn |-> conn]]
Connection_from_split_io(reader, writer) == reader.conn

\* NoiseTranscoder::with_xk_responder and with_xk_initiator: a transcoder whose
\* handshake has not begun
with_xk_responder == [role |-> "responder", complete |-> FALSE]
with_xk_initiator == [role |-> "initiator", complete |-> FALSE]

\* whether the transcoder's handshake state machine reports completion
is_handshake_complete(transcoder) == transcoder.complete

\* NoiseTranscoder::try_into_split and with_split: the halves keep the
\* transcoder's state and rejoin to it
try_into_split(transcoder) ==
    [encryptor |-> [role |-> transcoder.role, complete |-> transcoder.complete],
     decryptor |-> [role |-> transcoder.role, complete |-> transcoder.complete]]
with_split(encryptor, decryptor) == [role |-> encryptor.role, complete |-> decryptor.complete]

----------------------------------------------------------------------------
(* NoiseXk *)

\* NoiseXk::accept: responder, address known without identity
NoiseXk_accept(a) ==
    [transcoder |-> with_xk_responder,
     remote_addr |-> Partial(a),
     connection |-> [eof |-> FALSE],
     established |-> FALSE]

\* NoiseXk::connect_blocking: initiator, the dialled identity is already in the address
NoiseXk_connect_blocking(peer_addr) ==
    [transcoder |-> with_xk_initiator,
     remote_addr |-> Full(peer_addr),
     connection |-> [eof |-> FALSE],
     established |-> FALSE]

\* impl Read for NoiseXk: one read call; raw is what connection.read returns if
\* it is called, used tells whether it was
NoiseXk_read(self, raw) ==
    IF ~self.established
    THEN [self |-> [self EXCEPT !.established = TRUE,
                                !.remote_addr = XkAddr_upgrade(self.remote_addr, Generator).addr],
          ret |-> Ok(0), used |-> FALSE]
    ELSE [self |-> [self EXCEPT !.connection = Connection_read(self.connection, raw)],
          ret |-> raw, used |-> TRUE]

\* What a write hands to the raw connection: the caller's bytes as they are, a
\* handshake message of the transcoder, or the encryption of the caller's bytes
Bufs == {"b1", "b2"}
NoWire == [kind |-> "none", payload |-> "none"]
Verbatim(buf) == [kind |-> "plaintext", payload |-> buf]
HandshakeMessage(transcoder) == [kind |-> "handshake", payload |-> transcoder.role]
Encrypt(transcoder, buf) == [kind |-> "ciphertext", payload |-> buf]

\* impl Write for NoiseXk: write hands buf to the connection; raw is what that returns
NoiseXk_write(self, buf, raw) ==
    [self |-> [self EXCEPT !.established = TRUE], ret |-> raw, wire |-> Verbatim(buf)]

NoiseXk_flush(self, raw) ==
    [self |-> [self EXCEPT !.established = TRUE], ret |-> raw]

session_id(self) ==
    IF self.remote_addr.variant = "Partial" THEN None ELSE Some(self.remote_addr.id)

handshake_completed(self) == self.established

\* split_io without the check of established: what C13 rules out
split_io_unchecked(self, connOk, transOk) ==
    IF expect_peer_addr(self.remote_addr) = None
    THEN [halves |-> None, result |-> "panic", error |-> "none", original |-> None]
    ELSE LET peer_addr == expect_peer_addr(self.remote_addr)[1]
             io == Connection_split_io(self.connection)
             tr == try_into_split(self.transcoder)
         IN  IF ~connOk \/ ~transOk
             THEN [halves |-> None, result |-> "Err", error |-> NotConnected,
                   original |-> Some(self)]
             ELSE [halves |-> Some(
                      [reader |-> [reader |-> io.reader, decryptor |-> tr.decryptor,
                                   remote_addr |-> peer_addr],
                       writer |-> [writer |-> io.writer, encryptor |-> tr.encryptor,
                                   remote_addr |-> peer_addr]]),
                   result |-> "Ok", error |-> "none", original |-> None]

\* NoiseXk::split_io; connOk and transOk say whether connection.split_io and
\* transcoder.try_into_split succeed.  result is "Ok", "Err" or "panic"
NoiseXk_split_io(self, connOk, transOk) ==
    IF ~self.established
    THEN [halves |-> None, result |-> "Err", error |-> NotConnected, original |-> Some(self)]
    ELSE IF expect_peer_addr(self.remote_addr) = None
    THEN [halves |-> None, result |-> "panic", error |-> "none", original |-> None]
    ELSE LET peer_addr == expect_peer_addr(self.remote_addr)[1]
             io == Connection_split_io(self.connection)
             tr == try_into_split(self.transcoder)
         IN  IF ~connOk
             THEN [halves |-> None, result |-> "Err", error |-> "split",
                   original |-> Some(self)]
             ELSE IF ~transOk
             THEN [halves |-> None, result |-> "Err", error |-> NotConnected,
                   original |-> Some([self EXCEPT
                        !.connection = Connection_from_split_io(io.reader, io.writer)])]
             ELSE [halves |-> Some(
                      [reader |-> [reader |-> io.reader, decryptor |-> tr.decryptor,
                                   remote_addr |-> peer_addr],
                       writer |-> [writer |-> io.writer, encryptor |-> tr.encryptor,
                                   remote_addr |-> peer_addr]]),
                   result |-> "Ok", error |-> "none", original |-> None]

\* a join that forgets the verified identity: what C14 rules out
from_split_io_forgetful(read, write) ==
    IF read.remote_addr # write.remote_addr
    THEN None
    ELSE Some([transcoder |-> with_split(write.encryptor, read.decryptor),
               remote_addr |-> Partial(write.remote_addr.addr),
               connection |-> Connection_from_split_io(read.reader, write.writer),
               established |-> TRUE])

\* a join that merges whatever halves it is given: what C15 rules out
from_split_io_unchecked(read, write) ==
    Some([transcoder |-> with_split(write.encryptor, read.decryptor),
          remote_addr |-> Full(write.remote_addr),
          connection |-> Connection_from_split_io(read.reader, write.writer),
          established |-> TRUE])

\* NoiseXk::from_split_io: None stands for the panic on unrelated halves
NoiseXk_from_split_io(read, write) ==
    IF read.remote_addr # write.remote_addr
    THEN None
    ELSE Some([transcoder |-> with_split(write.encryptor, read.decryptor),
               remote_addr |-> Full(write.remote_addr),
               connection |-> Connection_from_split_io(read.reader, write.writer),
               established |-> TRUE])

----------------------------------------------------------------------------
(* A NetSession that keeps the session contract: read returns zero bytes     *)
(* while the handshake is in progress and completes it at most once, at     *)
(* which point the address is promoted with the identity the handshake      *)
(* produced; write and flush do not complete the handshake.  hs is what the *)
(* handshake does on this read: whether it completes and for which identity *)

Handshakes == [id : PeerIds, completes : BOOLEAN]

NetSession_read(self, raw, hs) ==
    IF ~self.established
    THEN LET conn == Connection_read(self.connection, raw)
         IN  IF ~raw.ok
             THEN [self |-> [self EXCEPT !.connection = conn], ret |-> raw, used |-> TRUE]
             ELSE IF raw.n > 0 /\ hs.completes
             THEN [self |-> [self EXCEPT !.connection = conn, !.established = TRUE,
                               !.transcoder.complete = TRUE,
                               !.remote_addr = XkAddr_upgrade(self.remote_addr, hs.id).addr],
                   ret |-> Ok(0), used |-> TRUE]
             ELSE [self |-> [self EXCEPT !.connection = conn], ret |-> Ok(0), used |-> TRUE]
    ELSE [self |-> [self EXCEPT !.connection = Connection_read(self.connection, raw)],
          ret |-> raw, used |-> TRUE]

NetSession_write(self, buf, raw) ==
    [self |-> self, ret |-> raw,
     wire |-> IF is_handshake_complete(self.transcoder)
              THEN Encrypt(self.transcoder, buf)
              ELSE HandshakeMessage(self.transcoder)]

NetSession_flush(self, raw) == [self |-> self, ret |-> raw]

----------------------------------------------------------------------------
(* Dispatch on the session type S, and io::Read::read_to_end over it *)

Session_read(impl, self, raw, hs) ==
    IF impl = "NoiseXk" THEN NoiseXk_read(self, raw) ELSE NetSession_read(self, raw, hs)

Session_write(impl, self, buf, raw) ==
    IF impl = "NoiseXk" THEN NoiseXk_write(self, buf, raw) ELSE NetSession_write(self, buf, raw)

Session_flush(impl, self, raw) ==
    IF impl = "NoiseXk" THEN NoiseXk_flush(self, raw) ELSE NetSession_flush(self, raw)

\* read until a read returns Ok(0) or an error other than Interrupted; buf counts
\* the bytes appended to the buffer so far
RECURSIVE read_to_end(_, _, _, _, _, _)
read_to_end(impl, self, chunks, end, hs, buf) ==
    LET raw == IF chunks = <<>> THEN end ELSE Head(chunks)
        r == Session_read(impl, self, raw, hs)
        rest == IF r.used /\ chunks # <<>> THEN Tail(chunks) ELSE chunks
    IN  IF r.ret.ok
        THEN IF r.ret.n = 0
             THEN [self |-> r.self, ret |-> Ok(buf), buffer |-> buf]
             ELSE read_to_end(impl, r.self, rest, end, hs, buf + r.ret.n)
        ELSE IF r.ret.err = Interrupted
             THEN read_to_end(impl, r.self, rest, end, hs, buf)
             ELSE [self |-> r.self, ret |-> r.ret, buffer |-> buf]

----------------------------------------------------------------------------
(* NetTransport *)

\* NetSession::expect_id: the verified identity, a panic (None) while there is none
expect_id(self) == session_id(self)

\* what a handler hands back: the transport state and session it leaves, the
\* event it returns, whether it panicked, and what it saw (the result of the
\* session call it made, and handshake_completed() after a read)
Outcome(st, self, ret, panic, res, completed) ==
    [session |-> self, state |-> st, ret |-> ret, panic |-> panic,
     res |-> res, completed |-> completed]

\* NetTransport::handle_writable; fl is what session.flush() does
handle_writable(st, self, fl, dbg) ==
    IF dbg /\ st = Terminated
    THEN Outcome(st, self, None, TRUE, Ok(0), handshake_completed(self))
    ELSE IF ~fl.ret.ok
    THEN Outcome(st, fl.self, Some(SessionEvent_Terminated(fl.ret.err)), FALSE, fl.ret,
                 handshake_completed(fl.self))
    ELSE Outcome(st, fl.self, None, FALSE, fl.ret, handshake_completed(fl.self))

\* NetTransport::handle_readable; rd is what session.read_to_end(&mut buffer) does
handle_readable(st, self, rd, dbg) ==
    IF dbg /\ st = Terminated
    THEN Outcome(st, self, None, TRUE, Ok(0), handshake_completed(self))
    ELSE
    LET was_established == (st = Handshake)
        res == rd.ret
        completed == handshake_completed(rd.self)
    IN  IF res.ok /\ res.n = 0 /\ ~was_established
        THEN IF completed
             THEN IF expect_id(rd.self) = None
                  THEN Outcome(Active, rd.self, None, TRUE, res, completed)
                  ELSE Outcome(Active, rd.self,
                               Some(SessionEvent_Established(expect_id(rd.self)[1])),
                               FALSE, res, completed)
             ELSE Outcome(st, rd.self, None, FALSE, res, completed)
        ELSE IF res.ok /\ res.n = 0
        THEN Outcome(Terminated, rd.self, Some(SessionEvent_Terminated(Interrupted)),
                     FALSE, res, completed)
        ELSE IF res.ok
        THEN IF dbg /\ ~was_established
             THEN Outcome(st, rd.self, None, TRUE, res, completed)
             ELSE Outcome(st, rd.self, Some(SessionEvent_Data(rd.buffer)), FALSE, res, completed)
        ELSE IF res.err = WouldBlock
        THEN Outcome(st, rd.self, Some(SessionEvent_Data(rd.buffer)), FALSE, res, completed)
        ELSE Outcome(Terminated, rd.self, Some(SessionEvent_Terminated(res.err)),
                     FALSE, res, completed)

\* IoEv
IoEv == [is_readable : BOOLEAN, is_writable : BOOLEAN]

\* which handler NetTransport::handle_io runs for ev
handler(ev) ==
    IF ev.is_writable THEN "handle_writable"
    ELSE IF ev.is_readable THEN "handle_readable"
    ELSE "unreachable"

\* a handle_io that looks at read-readiness first: what C20 rules out
handle_io_read_first(st, self, ev, rd, fl, dbg) ==
    IF ev.is_readable THEN handle_readable(st, self, rd, dbg)
    ELSE IF ev.is_writable THEN handle_writable(st, self, fl, dbg)
    ELSE Outcome(st, self, None, TRUE, Ok(0), handshake_completed(self))

\* NetTransport::handle_io
handle_io(st, self, ev, rd, fl, dbg) ==
    IF ev.is_writable THEN handle_writable(st, self, fl, dbg)
    ELSE IF ev.is_readable THEN handle_readable(st, self, rd, dbg)
    ELSE Outcome(st, self, None, TRUE, Ok(0), handshake_completed(self))

\* the record of a call: op the operation, pre the transport state before it
Call(op, pre, o) ==
    [ret |-> o.ret, wire |-> NoWire, panic |-> o.panic, res |-> o.res,
     completed |-> o.completed, op |-> op, pre |-> pre]

NoCall == [ret |-> None, wire |-> NoWire, panic |-> FALSE, res |-> Ok(0),
           completed |-> FALSE, op |-> "none", pre |-> Handshake]

\* NetTransport::upgrade, accept and connect
NetTransport_upgrade(self, inb) == [session |-> self, state |-> Handshake, inbound |-> inb]

NetTransport_accept(self) == NetTransport_upgrade(self, TRUE)

\* a connect that leaves the transport marked inbound: what C19 rules out
connect_marked_inbound(peer_addr) ==
    NetTransport_upgrade(NoiseXk_connect_blocking(peer_addr), TRUE)

NetTransport_connect(peer_addr) ==
    LET me == NetTransport_upgrade(NoiseXk_connect_blocking(peer_addr), TRUE)
    IN  [me EXCEPT !.inbound = FALSE]

is_inbound(inb) == inb
is_outbound(inb) == ~is_inbound(inb)

----------------------------------------------------------------------------
(* Initial states: a session fresh from accept or connect_blocking in its   *)
(* caller's hands, or a transport fresh from NetTransport::connect.  state  *)
(* and inbound mean something only while pc = "transport".                  *)

PeerAddrs == {PeerAddr(id, a) : id \in PeerIds, a \in Addrs}

InitCommon ==
    /\ debug_assertions \in BOOLEAN
    /\ xk = None
    /\ listener = None
    /\ net = None
    /\ halves = None
    /\ events = <<>>

\* the transport me that the constructor op has just returned
Constructed(op, me) ==
    /\ session = me.session
    /\ state = me.state
    /\ inbound = me.inbound
    /\ call = Call(op, me.state,
                   Outcome(me.state, me.session, None, FALSE, Ok(0),
                           handshake_completed(me.session)))

Init ==
    /\ S = "NoiseXk"
    /\ InitCommon
    /\ \/ /\ pc = "session"
          /\ session \in {NoiseXk_accept(a) : a \in Addrs}
                           \cup {NoiseXk_connect_blocking(pa) : pa \in PeerAddrs}
          /\ state = Handshake
          /\ inbound = TRUE
          /\ call = NoCall
       \/ /\ pc = "transport"
          /\ \E pa \in PeerAddrs : Constructed("connect", NetTransport_connect(pa))

----------------------------------------------------------------------------
(* The caller's operations on a bare session *)

SessionRead(raw) ==
    /\ pc = "session"
    /\ raw \in RawReads(session.connection)
    /\ LET r == NoiseXk_read(session, raw)
       IN  /\ session' = r.self
           /\ call' = Call("read", state,
                           Outcome(state, r.self, None, FALSE, r.ret, handshake_completed(r.self)))
    /\ UNCHANGED <<S, debug_assertions, xk, listener, net, pc, halves, state, inbound, events>>

SessionWrite(buf, raw) ==
    /\ pc = "session"
    /\ LET r == NoiseXk_write(session, buf, raw)
           c == Call("write", state,
                     Outcome(state, r.self, None, FALSE, r.ret, handshake_completed(r.self)))
       IN  /\ session' = r.self
           /\ call' = [c EXCEPT !.wire = r.wire]
    /\ UNCHANGED <<S, debug_assertions, xk, listener, net, pc, halves, state, inbound, events>>

SessionFlush(raw) ==
    /\ pc = "session"
    /\ LET r == NoiseXk_flush(session, raw)
       IN  /\ session' = r.self
           /\ call' = Call("flush", state,
                           Outcome(state, r.self, None, FALSE, r.ret, handshake_completed(r.self)))
    /\ UNCHANGED <<S, debug_assertions, xk, listener, net, pc, halves, state, inbound, events>>

SplitIo(connOk, transOk) ==
    /\ pc = "session"
    /\ LET r == NoiseXk_split_io(session, connOk, transOk)
           res == IF r.result = "Ok" THEN Ok(0) ELSE Err(r.error)
       IN  /\ pc' = IF r.result = "Ok" THEN "split"
                    ELSE IF r.result = "panic" THEN "panicked" ELSE "session"
           /\ session' = IF r.result = "Err" THEN r.original[1] ELSE session
           /\ halves' = r.halves
           /\ call' = Call("split_io", state,
                           Outcome(state, session, None, r.result = "panic", res,
                                   handshake_completed(session)))
    /\ UNCHANGED <<S, debug_assertions, xk, listener, net, state, inbound, events>>

FromSplitIo ==
    /\ pc = "split"
    /\ LET r == NoiseXk_from_split_io(halves[1].reader, halves[1].writer)
       IN  /\ pc' = IF r = None THEN "panicked" ELSE "session"
           /\ session' = IF r = None THEN session ELSE r[1]
           /\ halves' = None
           /\ call' = Call("from_split_io", state,
                           Outcome(state, session, None, r = None, Ok(0), r # None))
    /\ UNCHANGED <<S, debug_assertions, xk, listener, net, state, inbound, events>>

\* NetTransport::accept(session): ok says whether setting the timeouts and
\* non-blocking mode succeeded; if not the session is dropped with the error
Accept(ok) ==
    /\ pc = "session"
    /\ LET me == NetTransport_accept(session)
       IN  /\ pc' = IF ok THEN "transport" ELSE "dropped"
           /\ session' = me.session
           /\ state' = me.state
           /\ inbound' = me.inbound
           /\ call' = Call("accept", state,
                           Outcome(me.state, me.session, None, FALSE,
                                   IF ok THEN Ok(0) ELSE Err("Other"),
                                   handshake_completed(session)))
    /\ UNCHANGED <<S, debug_assertions, xk, listener, net, halves, events>>

----------------------------------------------------------------------------
(* The reactor's and the caller's operations on a transport *)

\* the handshake outcomes that matter to S: NoiseXk::read consults none
HandshakesOf(impl) ==
    IF impl = "NoiseXk" THEN {[id |-> Generator, completes |-> FALSE]} ELSE Handshakes

\* the raw results a call for ev consumes: reads for handle_readable, a flush
\* for handle_writable
ChunksFor(ev, conn) == IF handler(ev) = "handle_readable" THEN Chunks(conn) ELSE {<<>>}
EndsFor(ev, conn) == IF handler(ev) = "handle_readable" THEN Ends(conn) ELSE {Ok(0)}
FlushesFor(ev) == IF handler(ev) = "handle_writable" THEN RawFlushes ELSE {Ok(0)}

\* the events that run each branch of handle_io, and the handshake outcome
\* given where none is consulted
EventsFor(h) == {ev \in IoEv : handler(ev) = h}
NoHandshake == CHOOSE hs \in HandshakesOf("NoiseXk") : TRUE

\* every raw result there is, whatever the connection's state
AllRawReads == RawReads([eof |-> FALSE])
AllChunks == Chunks([eof |-> FALSE])
AllEnds == Ends([eof |-> FALSE])
AllHandshakes == Handshakes \cup HandshakesOf("NoiseXk")

\* what the history keeps of the event a call returned: its type
Logged(ret) == IF ret = None THEN <<>> ELSE <<[type |-> ret[1].type]>>

\* one readiness event: chunks and end are what the raw reads of this call
\* return, fl what the raw flush returns, hs what the handshake does
HandleIo(ev, chunks, end, hs, fl) ==
    /\ pc = "transport"
    /\ Len(events) < MaxEvents
    /\ chunks \in ChunksFor(ev, session.connection)
    /\ end \in EndsFor(ev, session.connection)
    /\ hs \in IF handler(ev) = "handle_readable" THEN HandshakesOf(S) ELSE {NoHandshake}
    /\ fl \in FlushesFor(ev)
    /\ LET o == handle_io(state, session, ev,
                          read_to_end(S, session, chunks, end, hs, 0),
                          Session_flush(S, session, fl),
                          debug_assertions)
       IN  /\ state' = o.state
           /\ session' = o.session
           /\ pc' = IF o.panic THEN "panicked" ELSE pc
           /\ events' = events \o Logged(o.ret)
           /\ call' = Call(handler(ev), state, o)
    /\ UNCHANGED <<S, debug_assertions, xk, listener, net, halves, inbound>>

\* impl Write for NetTransport
Write(buf, raw) ==
    /\ pc = "transport"
    /\ LET r == Session_write(S, session, buf, raw)
           c == Call("write", state,
                     Outcome(state, r.self, None, FALSE, r.ret, handshake_completed(r.self)))
       IN  /\ session' = r.self
           /\ call' = [c EXCEPT !.wire = r.wire]
    /\ UNCHANGED <<S, debug_assertions, xk, listener, net, pc, halves, state, inbound, events>>

Flush(raw) ==
    /\ pc = "transport"
    /\ LET r == Session_flush(S, session, raw)
       IN  /\ session' = r.self
           /\ call' = Call("flush", state,
                           Outcome(state, r.self, None, FALSE, r.ret, handshake_completed(r.self)))
    /\ UNCHANGED <<S, debug_assertions, xk, listener, net, pc, halves, state, inbound, events>>

Transport ==
    \/ \E ev \in EventsFor("handle_writable"), fl \in RawFlushes :
            HandleIo(ev, <<>>, Ok(0), NoHandshake, fl)
    \/ \E ev \in EventsFor("handle_readable"), chunks \in AllChunks, end \in AllEnds,
          hs \in AllHandshakes :
            HandleIo(ev, chunks, end, hs, Ok(0))
    \/ \E ev \in EventsFor("unreachable") :
            HandleIo(ev, <<>>, Ok(0), NoHandshake, Ok(0))
    \/ \E buf \in Bufs, raw \in RawWrites : Write(buf, raw)
    \/ \E raw \in RawFlushes : Flush(raw)

Next ==
    \/ \E raw \in AllRawReads : SessionRead(raw)
    \/ \E buf \in Bufs, raw \in RawWrites : SessionWrite(buf, raw)
    \/ \E raw \in RawFlushes : SessionFlush(raw)
    \/ \E connOk \in BOOLEAN, transOk \in BOOLEAN : SplitIo(connOk, transOk)
    \/ FromSplitIo
    \/ \E ok \in BOOLEAN : Accept(ok)
    \/ Transport

Spec == Init /\ [][Next]_vars

----------------------------------------------------------------------------
(* The transport over a session that keeps the session contract *)

InitS ==
    /\ S = "NetSession"
    /\ InitCommon
    /\ pc = "transport"
    /\ \/ \E a \in Addrs : Constructed("accept", NetTransport_accept(NoiseXk_accept(a)))
       \/ \E pa \in PeerAddrs : Constructed("connect", NetTransport_connect(pa))

NextS == Transport

SpecS == InitS /\ [][NextS]_vars

----------------------------------------------------------------------------
(* from_split_io on a reader and a writer that the caller took from the splits *)
(* of two established sessions, the same one or different ones                 *)

EstablishedSessions ==
    {[transcoder |-> t, remote_addr |-> Full(PeerAddr(id, a)),
      connection |-> [eof |-> eof], established |-> TRUE] :
        id \in PeerIds \cup {Generator}, a \in Addrs, eof \in BOOLEAN,
        t \in {with_xk_responder, with_xk_initiator}}

InitJ ==
    /\ S = "NoiseXk"
    /\ debug_assertions \in BOOLEAN
    /\ xk = None
    /\ listener = None
    /\ net = None
    /\ events = <<>>
    /\ call = NoCall
    /\ pc = "split"
    /\ state = Handshake
    /\ inbound = TRUE
    /\ session \in EstablishedSessions
    /\ \E other \in EstablishedSessions :
          halves = Some([reader |-> NoiseXk_split_io(session, TRUE, TRUE).halves[1].reader,
                         writer |-> NoiseXk_split_io(other, TRUE, TRUE).halves[1].writer])

NextJ == FromSplitIo

SpecJ == InitJ /\ [][NextJ]_vars

----------------------------------------------------------------------------
(* An XkAddr by itself: a caller makes one and calls upgrade on it; and the   *)
(* addresses of sessions, which the session's operations upgrade              *)

AllIds == PeerIds \cup {Generator}

XkAddrs == {Partial(a) : a \in Addrs} \cup {Full(PeerAddr(id, a)) : id \in AllIds, a \in Addrs}

InitAddr ==
    /\ S = "NoiseXk"
    /\ debug_assertions \in BOOLEAN
    /\ halves = None
    /\ events = <<>>
    /\ call = NoCall
    /\ pc = "addr"
    /\ session \in {NoiseXk_accept(a) : a \in Addrs}
    /\ state = Handshake
    /\ inbound = TRUE
    /\ \E x \in XkAddrs : xk = Some([addr |-> x, init |-> x, log |-> <<>>])
    /\ listener = None
    /\ net = None

\* self.upgrade(id) on the address; the log keeps the arguments and the returns
Upgrade(id) ==
    /\ pc = "addr"
    /\ Len(xk[1].log) < MaxUpgrades
    /\ LET r == XkAddr_upgrade(xk[1].addr, id)
       IN  xk' = Some([addr |-> r.addr, init |-> xk[1].init,
                       log |-> Append(xk[1].log, [id |-> id, ret |-> r.ret])])
    /\ UNCHANGED <<S, debug_assertions, listener, net, pc, session, halves, state, inbound,
                   events, call>>

InitA == InitAddr \/ Init

NextA ==
    \/ \E id \in AllIds : Upgrade(id)
    \/ Next

SpecA == InitA /\ [][NextA]_vars

----------------------------------------------------------------------------
(* NetAccept: a listening socket with connections arriving on it, driven by  *)
(* readiness events                                                           *)

ListenerEvent_Accepted(s) == [session |-> Some(s), err |-> "none", type |-> "Accepted"]
ListenerEvent_Failure(err) == [session |-> None, err |-> err, type |-> "Failure"]

\* what listener.accept() returns on a non-blocking socket: a stream if one is
\* pending, would-block if none is, or another error
RawAccepts(backlog) ==
    IF backlog > 0 THEN {Ok(1), Err("Other")} ELSE {Err(WouldBlock), Err("Other")}
AllRawAccepts == RawAccepts(0) \cup RawAccepts(1)

\* the listening socket is ready to accept when it is reported readable
AcceptReady(ev) == ev.is_readable

\* NetAccept::handle_accept: raw is what listener.accept() returns, a the remote
\* address of the stream, setupOk whether setting its timeouts and non-blocking
\* mode succeeded
handle_accept(backlog, raw, a, setupOk) ==
    IF ~raw.ok
    THEN [session |-> None, result |-> Err(raw.err), backlog |-> backlog]
    ELSE IF ~setupOk
    THEN [session |-> None, result |-> Err("Other"), backlog |-> backlog - 1]
    ELSE [session |-> Some(NoiseXk_accept(a)), result |-> Ok(0), backlog |-> backlog - 1]

\* NetAccept::handle_io; accepts counts the calls of listener.accept()
NetAccept_handle_io(backlog, ev, raw, a, setupOk) ==
    IF ev.is_writable
    THEN LET r == handle_accept(backlog, raw, a, setupOk)
         IN  [ret |-> Some(IF r.result.ok THEN ListenerEvent_Accepted(r.session[1])
                           ELSE ListenerEvent_Failure(r.result.err)),
              backlog |-> r.backlog, accepts |-> 1]
    ELSE [ret |-> None, backlog |-> backlog, accepts |-> 0]

NoListenerCall == [ret |-> None, ev |-> [is_readable |-> FALSE, is_writable |-> FALSE],
                   op |-> "none", accepts |-> 0]

InitL ==
    /\ S = "NoiseXk"
    /\ debug_assertions \in BOOLEAN
    /\ xk = None
    /\ net = None
    /\ halves = None
    /\ events = <<>>
    /\ call = NoCall
    /\ pc = "listener"
    /\ session \in {NoiseXk_accept(a) : a \in Addrs}
    /\ state = Handshake
    /\ inbound = TRUE
    /\ listener = Some([log |-> <<>>, backlog |-> 0, last |-> NoListenerCall])

\* a peer connects: one more connection is pending on the socket
Arrive ==
    /\ pc = "listener"
    /\ listener[1].backlog < MaxBacklog
    /\ listener' = Some([listener[1] EXCEPT !.backlog = @ + 1])
    /\ UNCHANGED <<S, debug_assertions, xk, net, pc, session, halves, state, inbound,
                   events, call>>

\* the reactor delivers ev to the listener
ListenerHandleIo(ev, raw, a, setupOk) ==
    /\ pc = "listener"
    /\ Len(listener[1].log) < MaxListenerEvents
    /\ raw \in RawAccepts(listener[1].backlog)
    /\ LET r == NetAccept_handle_io(listener[1].backlog, ev, raw, a, setupOk)
       IN  listener' = Some([log |-> listener[1].log \o Logged(r.ret),
                             backlog |-> r.backlog,
                             last |-> [ret |-> r.ret, ev |-> ev,
                                       op |-> "handle_io", accepts |-> r.accepts]])
    /\ UNCHANGED <<S, debug_assertions, xk, net, pc, session, halves, state, inbound,
                   events, call>>

NextL ==
    \/ Arrive
    \/ \E ev \in IoEv, raw \in AllRawAccepts, a \in Addrs, setupOk \in BOOLEAN :
            ListenerHandleIo(ev, raw, a, setupOk)

SpecL == InitL /\ [][NextL]_vars

----------------------------------------------------------------------------
(* Two peers: the responder's transport comes from NetTransport::accept on   *)
(* the accepted connection, the initiator's from NetTransport::connect to     *)
(* the responder's address and key.  The connection between them is reliable: *)
(* what one side writes the other reads, in order, and a shutdown is seen as  *)
(* end of stream.  A reactor on each side delivers readiness events.          *)

Peers == {"initiator", "responder"}
Other(p) == IF p = "initiator" THEN "responder" ELSE "initiator"
\* the public key of each peer's identity
Key(p) == IF p = "initiator" THEN "Ki" ELSE "Kr"

\* what the history of a peer keeps of a returned event: its type and identity
PeerLogged(ret) == IF ret = None THEN <<>> ELSE <<[id |-> ret[1].id, type |-> ret[1].type]>>

NewPeer(me) ==
    [session |-> me.session, state |-> me.state, inbound |-> me.inbound,
     events |-> <<>>, status |-> "running"]

InitP ==
    /\ S = "NoiseXk"
    /\ debug_assertions \in BOOLEAN
    /\ xk = None
    /\ listener = None
    /\ halves = None
    /\ events = <<>>
    /\ call = NoCall
    /\ pc = "peers"
    /\ session \in {NoiseXk_accept(a) : a \in Addrs}
    /\ state = Handshake
    /\ inbound = TRUE
    /\ \E a \in Addrs :
          net = Some([peer |-> [p \in Peers |->
                                  IF p = "responder"
                                  THEN NewPeer(NetTransport_accept(NoiseXk_accept(a)))
                                  ELSE NewPeer(NetTransport_connect(PeerAddr(Key("responder"), a)))],
                      inflight |-> [p \in Peers |-> 0],
                      closed |-> [p \in Peers |-> FALSE]])

\* the socket of p is readable: bytes are waiting or the other side has shut down
ReadReady(p) == net[1].inflight[p] > 0 \/ net[1].closed[Other(p)]

\* the reactor of p delivers ev to p's transport.  The raw reads return what
\* the connection holds for p: the bytes in flight, then end of stream if the
\* other side has shut down and would-block otherwise
PeerHandleIo(p, ev) ==
    /\ pc = "peers"
    /\ net[1].peer[p].status = "running"
    /\ Len(net[1].peer[p].events) < MaxPeerEvents
    /\ ev.is_readable \/ ev.is_writable
    /\ ev.is_readable => ReadReady(p)
    /\ LET me == net[1].peer[p]
           chunks == IF net[1].inflight[p] > 0 THEN <<Ok(net[1].inflight[p])>> ELSE <<>>
           end == IF net[1].closed[Other(p)] THEN Ok(0) ELSE Err(WouldBlock)
           rd == read_to_end("NoiseXk", me.session, chunks, end, NoHandshake, 0)
           o == handle_io(me.state, me.session, ev, rd,
                          Session_flush("NoiseXk", me.session, Ok(0)), debug_assertions)
           taken == IF handler(ev) = "handle_readable" /\ ~(debug_assertions /\ me.state = Terminated)
                    THEN rd.buffer ELSE 0
       IN  net' = Some([net[1] EXCEPT
                    !.peer[p] = [session |-> o.session, state |-> o.state,
                                 inbound |-> me.inbound,
                                 events |-> me.events \o PeerLogged(o.ret),
                                 status |-> IF o.panic THEN "panicked" ELSE "running"],
                    !.inflight[p] = @ - taken])
    /\ UNCHANGED <<S, debug_assertions, xk, listener, pc, session, halves, state, inbound,
                   events, call>>

\* the owner of p's transport writes one byte through it
PeerWrite(p, buf) ==
    /\ pc = "peers"
    /\ net[1].peer[p].status = "running"
    /\ ~net[1].closed[p] /\ ~net[1].closed[Other(p)]
    /\ net[1].inflight[Other(p)] < MaxInFlight
    /\ LET r == Session_write("NoiseXk", net[1].peer[p].session, buf, Ok(1))
       IN  net' = Some([net[1] EXCEPT !.peer[p].session = r.self,
                                      !.inflight[Other(p)] = @ + r.ret.n])
    /\ UNCHANGED <<S, debug_assertions, xk, listener, pc, session, halves, state, inbound,
                   events, call>>

\* NetTransport::disconnect: the connection is shut down both ways
PeerDisconnect(p) ==
    /\ pc = "peers"
    /\ net[1].peer[p].status = "running"
    /\ net' = Some([net[1] EXCEPT !.peer[p].status = "disconnected", !.closed[p] = TRUE])
    /\ UNCHANGED <<S, debug_assertions, xk, listener, pc, session, halves, state, inbound,
                   events, call>>

NextP ==
    \/ \E p \in Peers, ev \in IoEv : PeerHandleIo(p, ev)
    \/ \E p \in Peers, buf \in Bufs : PeerWrite(p, buf)
    \/ \E p \in Peers : PeerDisconnect(p)

\* the event that makes handle_io read: is_readable set, is_writable clear
ReadableOnly == [is_readable |-> TRUE, is_writable |-> FALSE]

\* each reactor keeps delivering read-readiness while its socket is readable
FairP == \A p \in Peers : WF_vars(PeerHandleIo(p, ReadableOnly))

SpecP == InitP /\ [][NextP]_vars /\ FairP

----------------------------------------------------------------------------
(* Properties *)

\* the last call was NetTransport::handle_readable / handle_writable
Readable == call.op = "handle_readable"
Writable == call.op = "handle_writable"

\* the event the last call returned is of type t
Returned(t) == call.ret # None /\ call.ret[1].type = t

\* how many events of type t handle_io has returned so far
Count(t) == Cardinality({i \in 1..Len(events) : events[i].type = t})

\* established and the address variant of the session, while there is a session
HasSession == pc \in {"session", "transport"}
IsFull == session.remote_addr.variant = "Full"

\* C1: handle_readable in state Handshake, where the session read yields zero
\* bytes and the session then reports handshake_completed(), leaves the state
\* Active and returns exactly one event, Established(peer identity).
C1_HandshakeCompletedBecomesActive ==
    (Readable /\ call.pre = Handshake /\ call.res = Ok(0) /\ call.completed)
        => /\ state = Active
           /\ Returned("Established")
           /\ call.ret = Some(SessionEvent_Established(session.remote_addr.id))

\* C2: handle_readable in state Handshake, where the session read yields zero
\* bytes and the session does not yet report handshake_completed(), leaves the
\* state Handshake and returns no event.
C2_HandshakeIncompleteStays ==
    (Readable /\ call.pre = Handshake /\ call.res = Ok(0) /\ ~call.completed)
        => (state = Handshake /\ call.ret = None)

\* C3: handle_readable in state Active, where the session read yields zero bytes,
\* leaves the state Terminated and returns a Terminated event, never Established.
C3_ActiveZeroReadTerminates ==
    (Readable /\ call.pre = Active /\ call.res = Ok(0))
        => (state = Terminated /\ Returned("Terminated"))

\* C4: Terminated is absorbing: no step of a transport whose state is Terminated
\* leaves it in another state.
C4_TerminatedAbsorbing ==
    [][(pc = "transport" /\ state = Terminated) => state' = Terminated]_vars

\* C5: in a state other than Terminated, a read error in handle_readable or a
\* flush error in handle_writable, other than would-block, leaves the state
\* Terminated and returns Terminated(err); a successful flush returns no event.
C5_ErrorsTerminate ==
    /\ ((Readable \/ Writable) /\ call.pre # Terminated
            /\ ~call.res.ok /\ call.res.err # WouldBlock)
        => (state = Terminated /\ call.ret = Some(SessionEvent_Terminated(call.res.err)))
    /\ (Writable /\ call.res.ok) => call.ret = None

\* C6: when the session read fails with would-block, handle_readable returns no
\* event and leaves the state as it was.
C6_WouldBlockNoEvent ==
    (Readable /\ call.res = Err(WouldBlock)) => (call.ret = None /\ state = call.pre)

\* C7: a Data event is returned only by handle_readable in state Active.
C7_DataOnlyWhenActive ==
    Returned("Data") => (Readable /\ call.pre = Active)

\* C8: over the life of a transport Established is returned at most once, once
\* when the transport has become Active, and before any Data event.
C8_EstablishedOnceBeforeData ==
    /\ Count("Established") <= 1
    /\ state = Active => Count("Established") = 1
    /\ \A i \in 1..Len(events) :
          events[i].type = "Data" => \E j \in 1..(i - 1) : events[j].type = "Established"

\* C9: over the life of a transport at most one Terminated event is returned,
\* and the call that returns it is the one that moves the state to Terminated.
C9_TerminatedOneShot ==
    /\ Count("Terminated") <= 1
    /\ Returned("Terminated") => (state = Terminated /\ call.pre # Terminated)

\* C10: established goes from false to true at most once and never back, it
\* becomes true in the very step that promotes the address from Partial to
\* Full, and a session is established exactly when its address is Full.
C10_EstablishedIffFull ==
    [][(HasSession /\ HasSession') =>
          /\ session.established => session'.established
          /\ (~session.established /\ session'.established) => (~IsFull /\ IsFull')
          /\ session'.established <=> IsFull']_vars

\* C11: NoiseXk::read returns zero bytes of application data and leaves
\* established false for as long as the transcoder's handshake state machine has
\* not reported completion: a session is established only once it has.
C11_EstablishedOnlyOnCompletion ==
    HasSession =>
        /\ session.established => is_handshake_complete(session.transcoder)
        /\ (call.op = "read" /\ ~is_handshake_complete(session.transcoder))
              => (call.res = Ok(0) /\ ~session.established)

\* C12: what a write hands to the raw connection is a handshake message of the
\* transcoder while the handshake is incomplete, and the encryption of the
\* caller's bytes once it is complete: never the caller's buffer as it is.
C12_WriteNeverVerbatim ==
    (HasSession /\ call.op = "write") =>
        /\ call.wire.kind # "plaintext"
        /\ call.wire.kind =
              IF is_handshake_complete(session.transcoder) THEN "ciphertext" ELSE "handshake"

\* C13: split_io on a session whose established is false always fails with
\* NotConnected and gives back the original session: remote address, connection,
\* transcoder and established are as they were, and no halves exist.
C13_SplitUnestablishedFails ==
    [][((\E connOk \in BOOLEAN, transOk \in BOOLEAN : SplitIo(connOk, transOk))
            /\ ~session.established)
        => /\ call'.res = Err(NotConnected)
           /\ pc' = "session"
           /\ session' = session
           /\ halves' = None]_vars

\* a split_io was refused on a session that is not established
C13_Witness ==
    /\ pc = "session"
    /\ ~session.established
    /\ call.op = "split_io"
    /\ call.res = Err(NotConnected)

\* the step is a split_io of an established session whose address is Full
SplitOfEstablished ==
    /\ \E connOk \in BOOLEAN, transOk \in BOOLEAN : SplitIo(connOk, transOk)
    /\ session.established
    /\ IsFull

\* the halves h carry the peer address of the session self, and joining them
\* gives self back: same Full address, established, connection and transcoder
RoundTrip(self, h) ==
    /\ h # None
    /\ h[1].reader.remote_addr = expect_peer_addr(self.remote_addr)[1]
    /\ h[1].writer.remote_addr = expect_peer_addr(self.remote_addr)[1]
    /\ NoiseXk_from_split_io(h[1].reader, h[1].writer) = Some(self)

\* C14: for every established session S with a verified (Full) peer address,
\* split_io(S) succeeds with a reader and a writer both tagged with S's peer
\* address, and from_split_io of them is a session with the same Full address,
\* established, connection and cipher state as S.
C14_SplitJoinRoundTrip ==
    [][SplitOfEstablished => (pc' = "split" /\ RoundTrip(session, halves'))]_vars

\* C14 as the code has it: split_io of such a session either succeeds, and then
\* the halves are tagged with S's peer address and join back to S, or it fails
\* (the connection or the transcoder refused to split) and hands S back with
\* the same address, connection, transcoder and established; and the join that
\* follows a successful split gives the session S.
C14_RoundTripWhenSplitSucceeds ==
    [][/\ SplitOfEstablished =>
            IF pc' = "split"
            THEN RoundTrip(session, halves')
            ELSE /\ pc' = "session"
                 /\ ~call'.res.ok
                 /\ session' = session
                 /\ halves' = None
       /\ (FromSplitIo /\ session.established /\ IsFull) =>
            /\ pc' = "session"
            /\ session' = session]_vars

\* a session came back from a split and a join
C14_Witness ==
    /\ pc = "session"
    /\ call.op = "from_split_io"
    /\ session.established
    /\ IsFull

\* C15: from_split_io never makes a session of a reader and a writer whose
\* recorded peer addresses differ: for such a pair it aborts and no session
\* results; every session it returns has the reader's address, which is the
\* writer's, as its Full address.
C15_MismatchedHalvesNeverJoin ==
    [][FromSplitIo =>
        IF halves[1].reader.remote_addr # halves[1].writer.remote_addr
        THEN pc' = "panicked" /\ call'.panic /\ session' = session
        ELSE /\ pc' = "session"
             /\ session'.remote_addr = Full(halves[1].reader.remote_addr)
             /\ session'.remote_addr = Full(halves[1].writer.remote_addr)]_vars

\* a join of halves with different addresses was attempted and aborted
C15_Witness ==
    /\ pc = "panicked"
    /\ call.op = "from_split_io"
    /\ call.panic

\* C16: promotion is one-way and happens once.  On Partial(a) the first
\* upgrade(id) returns true and makes it Full(id, a); every later upgrade
\* returns false and leaves Full(id, a) as it is; on an address that is already
\* Full every upgrade returns false and changes nothing; as_addr is a before
\* and after; and no upgrade and no operation of a session turns a Full address
\* back into Partial.
C16_UpgradeOnce ==
    /\ [](pc = "addr" =>
            LET x == xk[1]
            IN  /\ as_addr(x.addr) = as_addr(x.init)
                /\ (x.init.variant = "Partial" /\ x.log # <<>>) =>
                      /\ x.log[1].ret
                      /\ x.addr = Full(PeerAddr(x.log[1].id, as_addr(x.init)))
                      /\ \A i \in 2..Len(x.log) : ~x.log[i].ret
                /\ x.init.variant = "Full" =>
                      /\ x.addr = x.init
                      /\ \A i \in 1..Len(x.log) : ~x.log[i].ret)
    /\ [][/\ (pc = "addr" /\ xk[1].addr.variant = "Full") => xk'[1].addr = xk[1].addr
          /\ IsFull => session'.remote_addr.variant = "Full"]_vars

\* a Partial address was upgraded, and then upgraded again with another identity
C16_Witness ==
    /\ pc = "addr"
    /\ xk[1].init.variant = "Partial"
    /\ Len(xk[1].log) >= 2
    /\ xk[1].log[1].id # xk[1].log[2].id

\* the step is a handle_io call of the transport, and the handler it ran
HandleIoStep == pc = "transport" /\ call'.op \in {"handle_writable", "handle_readable"}

\* C19: the direction is fixed at construction.  A transport that accept has
\* just returned is inbound, one that connect has just returned is outbound,
\* both are in state Handshake, is_inbound and is_outbound are always opposite,
\* and no handle_io, write or flush changes the direction.
C19_DirectionFixed ==
    /\ [](pc = "transport" =>
            /\ is_inbound(inbound) # is_outbound(inbound)
            /\ call.op = "accept" => (is_inbound(inbound) /\ state = Handshake)
            /\ call.op = "connect" => (is_outbound(inbound) /\ state = Handshake))
    /\ [][pc = "transport" => inbound' = inbound]_vars

\* a transport that connect returned has handled an event and is still outbound
C19_Witness ==
    /\ pc = "transport"
    /\ call.op \in {"handle_writable", "handle_readable"}
    /\ Len(events) >= 1
    /\ is_outbound(inbound)

\* C20: an event with is_writable set runs the flush path alone, also when
\* is_readable is set with it: the session is not read (its connection and its
\* address are as before, the state too) and neither Established nor Data is
\* returned or added to the history; what such a call returns is what
\* handle_writable returns.  The session is read only by a call for an event
\* with is_readable set and is_writable clear.
C20_WritableFirst ==
    [][HandleIoStep =>
        /\ call'.op = "handle_writable" =>
              /\ session'.connection = session.connection
              /\ session'.remote_addr = session.remote_addr
              /\ state' = state
              /\ call'.ret = None \/ call'.ret[1].type = "Terminated"
              /\ events' = events \o Logged(call'.ret)
              /\ \E fl \in RawFlushes :
                    LET o == handle_writable(state, session, Session_flush(S, session, fl),
                                             debug_assertions)
                    IN  call'.ret = o.ret /\ session' = o.session /\ call'.res = o.res
        /\ (\/ session'.connection # session.connection
            \/ session'.remote_addr # session.remote_addr
            \/ (call'.ret # None /\ call'.ret[1].type \in {"Established", "Data"}))
              => call'.op = "handle_readable"]_vars

\* an event with both is_readable and is_writable set was handled on a
\* transport in state Handshake whose connection had reached end of stream
C20_Witness ==
    /\ pc = "transport"
    /\ call.op = "handle_writable"
    /\ call.pre = Handshake
    /\ Len(events) >= 1

\* C18: an event that does not signal accept-readiness of the listening socket
\* makes NetAccept::handle_io perform no accept and return no ListenerEvent; an
\* event that signals it makes handle_io perform exactly one accept and return
\* exactly one event, Accepted or Failure.
C18_AcceptOnAcceptReadiness ==
    (pc = "listener" /\ listener[1].last.op = "handle_io") =>
        LET last == listener[1].last
        IN  IF AcceptReady(last.ev)
            THEN /\ last.accepts = 1
                 /\ last.ret # None
                 /\ last.ret[1].type \in {"Accepted", "Failure"}
            ELSE /\ last.accepts = 0
                 /\ last.ret = None

\* the transport of p has returned Established(id)
Emitted(p, id) ==
    \E i \in 1..Len(net[1].peer[p].events) :
        net[1].peer[p].events[i].type = "Established" /\ net[1].peer[p].events[i].id = id

\* C17: in a two-peer run with readiness delivered fairly, each transport
\* eventually returns Established with the other side's real public key, the
\* initiator's Established(Kr) and the responder's Established(Ki), and neither
\* ever returns Established with a placeholder or any other identity.
C17_BothEstablishedWithRealKeys ==
    /\ <>(Emitted("initiator", Key("responder")) /\ Emitted("responder", Key("initiator")))
    /\ [](\A p \in Peers : \A id \in AllIds : Emitted(p, id) => id = Key(Other(p)))

====
